---- MODULE Spec2Model ----
(***************************************************************************)
(* Smart Campus Navigation System: the constraint store (blocked paths,    *)
(* hazard zones), the effective-weight function, Dijkstra's search with its  *)
(* step trace and the nearest-exit query of campus-nav-python.py, and the   *)
(* Flask handlers of campus-nav-api.py that drive them.                     *)
(*                                                                         *)
(* Traffic multipliers are one-decimal floats in the source; they are kept  *)
(* here as integer tenths (1.5 is 15), and a product distance * multiplier  *)
(* is the exact rational (distance * tenths) / 10.                          *)
(***************************************************************************)
EXTENDS Integers, Sequences, FiniteSets, TLC

VARIABLES
    graph,          \* PathFinder.graph: nodes with their connections, exit_points
    blocked_paths,  \* PathFinder.blocked_paths: set of sorted pairs
    hazard_zones,   \* PathFinder.hazard_zones: set of node names
    q,              \* the call frame of a dijkstra() call (its locals), or Idle
    ne,             \* the call frame of a find_nearest_exit() call, or NeIdle
    reset,          \* the frame of a reset_state() handler: its position, and
                    \* (history) the store it started from
    response,       \* the response of the last handler, until the client takes it
    seen            \* history: the store states that existed while q was in flight

vars == <<graph, blocked_paths, hazard_zones, q, ne, reset, response, seen>>

----------------------------------------------------------------------------
(* Bounds of the model *)

\* largest number of blocked pairs the store holds at once
MaxBlocked == 2
\* largest number of hazard zones the store holds at once
MaxHazards == 2
\* largest number of store states a query in flight lives through
MaxSeen == 3
\* largest base distance of a drawn link
MaxDistance == 5

----------------------------------------------------------------------------
(* Program constants *)

\* float('inf'): larger than every finite route length of the graph
Inf == 1000000
\* the penalty added per hazardous endpoint in emergency mode
HazardPenalty == 500

None == "None"

TimeOfDay == {"morning", "afternoon", "evening"}

\* Python's ordering of the node names (str comparison), used by sorted() in
\* block_path and by the (distance, node) tuples of the heap
SortedNames ==
    "Admin Block" :> 1 @@ "Auditorium" :> 2 @@ "Cafeteria" :> 3 @@
    "Computer Lab" :> 4 @@ "Hostel" :> 5 @@ "Lecture Hall" :> 6 @@
    "Library" :> 7 @@ "Main Gate" :> 8 @@ "Sports Complex" :> 9

StrRank(s) == SortedNames[s]

StrLess(a, b) == StrRank(a) < StrRank(b)

TrafficMultiplier(mo, af, ev) == [morning |-> mo, afternoon |-> af, evening |-> ev]

Connection(to, distance, mo, af, ev) ==
    [to |-> to, distance |-> distance, traffic |-> TrafficMultiplier(mo, af, ev)]

\* CampusGraph._initialize_campus_graph: node -> its connections, in dict order
CampusNodes ==
    "Main Gate" :> <<
        Connection("Library", 150, 15, 10, 12),
        Connection("Admin Block", 200, 18, 13, 10)
    >> @@
    "Library" :> <<
        Connection("Main Gate", 150, 15, 10, 12),
        Connection("Computer Lab", 120, 16, 14, 10)
    >> @@
    "Computer Lab" :> <<
        Connection("Library", 120, 16, 14, 10),
        Connection("Lecture Hall", 100, 17, 15, 10),
        Connection("Admin Block", 150, 14, 12, 10)
    >> @@
    "Lecture Hall" :> <<
        Connection("Computer Lab", 100, 17, 15, 10),
        Connection("Sports Complex", 200, 10, 13, 16),
        Connection("Cafeteria", 160, 13, 18, 14)
    >> @@
    "Admin Block" :> <<
        Connection("Main Gate", 200, 18, 13, 10),
        Connection("Computer Lab", 150, 14, 12, 10),
        Connection("Cafeteria", 100, 15, 12, 10)
    >> @@
    "Cafeteria" :> <<
        Connection("Admin Block", 100, 15, 12, 10),
        Connection("Lecture Hall", 160, 13, 18, 14),
        Connection("Auditorium", 140, 10, 12, 15)
    >> @@
    "Sports Complex" :> <<
        Connection("Lecture Hall", 200, 10, 13, 16),
        Connection("Auditorium", 180, 10, 14, 17)
    >> @@
    "Auditorium" :> <<
        Connection("Cafeteria", 140, 10, 12, 15),
        Connection("Sports Complex", 180, 10, 14, 17),
        Connection("Hostel", 150, 12, 10, 13)
    >> @@
    "Hostel" :> <<
        Connection("Auditorium", 150, 12, 10, 13),
        Connection("Sports Complex", 220, 10, 11, 14)
    >>

\* CampusGraph.__init__
CampusGraph ==
    [nodes |-> CampusNodes, exit_points |-> <<"Main Gate", "Sports Complex">>]

----------------------------------------------------------------------------
(* Graph access *)

Nodes == DOMAIN graph.nodes

ExitPoints == {graph.exit_points[i] : i \in 1..Len(graph.exit_points)}

\* node.connections as an ordered sequence; `to_node in node.connections`
HasConnection(from_node, to_node) ==
    /\ from_node \in Nodes
    /\ \E i \in 1..Len(graph.nodes[from_node]) : graph.nodes[from_node][i].to = to_node

\* node.connections[to_node]
GetConnection(from_node, to_node) ==
    LET conns == graph.nodes[from_node]
        i == CHOOSE j \in 1..Len(conns) : conns[j].to = to_node
    IN  conns[i]

----------------------------------------------------------------------------
(* The constraint store: PathFinder's mutators as functions of the sets *)

\* tuple(sorted([node1, node2]))
PathKey(node1, node2) ==
    IF StrLess(node2, node1) THEN <<node2, node1>> ELSE <<node1, node2>>

\* faulty variant: a pair that is already blocked is taken out again
block_path_toggle(bp, node1, node2) ==
    IF PathKey(node1, node2) \in bp
    THEN bp \ {PathKey(node1, node2)}
    ELSE bp \cup {PathKey(node1, node2)}

\* faulty variant: the pair is added as given, not sorted
block_path_unsorted(bp, node1, node2) == bp \cup {<<node1, node2>>}

block_path(bp, node1, node2) == bp \cup {PathKey(node1, node2)}

\* faulty variant: the pair is discarded as given, not sorted
unblock_path_unsorted(bp, node1, node2) == bp \ {<<node1, node2>>}

unblock_path(bp, node1, node2) == bp \ {PathKey(node1, node2)}

\* faulty variant: no exit-point test
add_hazard_zone_unchecked(hz, node) == hz \cup {node}

add_hazard_zone(hz, node) ==
    IF node \notin ExitPoints THEN hz \cup {node} ELSE hz

remove_hazard_zone(hz, node) == hz \ {node}

clear_hazards(hz) == {}

----------------------------------------------------------------------------
(* The weight function *)

\* faulty variant: a tie goes up
round_half_up(num, den) == (2 * num + den) \div (2 * den)

\* Python 3's round() of the non-negative rational num / den: to the nearest
\* integer, a tie (fractional part exactly one half) to the even neighbour
round(num, den) ==
    LET lo == num \div den
        r  == num % den
    IN  IF 2 * r < den THEN lo
        ELSE IF 2 * r > den THEN lo + 1
        ELSE IF lo % 2 = 0 THEN lo ELSE lo + 1

\* faulty variant: the blocked test uses the pair as given, not sorted
get_effective_weight_unsorted(bp, hz, from_node, to_node, time_of_day, emergency_mode) ==
    IF <<from_node, to_node>> \in bp THEN Inf
    ELSE IF ~HasConnection(from_node, to_node) THEN Inf
    ELSE LET connection == GetConnection(from_node, to_node)
             base_distance == connection.distance
         IN  IF emergency_mode
             THEN base_distance
                  + (IF from_node \in hz THEN HazardPenalty ELSE 0)
                  + (IF to_node \in hz THEN HazardPenalty ELSE 0)
             ELSE LET multiplier ==
                          IF time_of_day = "morning" THEN connection.traffic.morning
                          ELSE IF time_of_day = "afternoon" THEN connection.traffic.afternoon
                          ELSE connection.traffic.evening
                  IN  round(base_distance * multiplier, 10)

\* faulty variant: one penalty when either endpoint is hazardous
get_effective_weight_one_penalty(bp, hz, from_node, to_node, time_of_day, emergency_mode) ==
    IF PathKey(from_node, to_node) \in bp THEN Inf
    ELSE IF ~HasConnection(from_node, to_node) THEN Inf
    ELSE LET connection == GetConnection(from_node, to_node)
             base_distance == connection.distance
         IN  IF emergency_mode
             THEN base_distance
                  + (IF from_node \in hz \/ to_node \in hz THEN HazardPenalty ELSE 0)
             ELSE LET multiplier ==
                          IF time_of_day = "morning" THEN connection.traffic.morning
                          ELSE IF time_of_day = "afternoon" THEN connection.traffic.afternoon
                          ELSE connection.traffic.evening
                  IN  round(base_distance * multiplier, 10)

\* PathFinder._get_effective_weight, reading the store bp, hz
get_effective_weight(bp, hz, from_node, to_node, time_of_day, emergency_mode) ==
    IF PathKey(from_node, to_node) \in bp THEN Inf
    ELSE IF ~HasConnection(from_node, to_node) THEN Inf
    ELSE LET connection == GetConnection(from_node, to_node)
             base_distance == connection.distance
         IN  IF emergency_mode
             THEN base_distance
                  + (IF from_node \in hz THEN HazardPenalty ELSE 0)
                  + (IF to_node \in hz THEN HazardPenalty ELSE 0)
             ELSE LET multiplier ==
                          IF time_of_day = "morning" THEN connection.traffic.morning
                          ELSE IF time_of_day = "afternoon" THEN connection.traffic.afternoon
                          ELSE connection.traffic.evening
                  IN  round(base_distance * multiplier, 10)

----------------------------------------------------------------------------
(* Dijkstra's search: the call frame of PathFinder.dijkstra and its steps *)

Idle == [pc |-> "idle"]

\* no reset_state() handler is running
ResetIdle == [pc |-> "idle", from |-> <<{}, {}>>]

\* an entry of steps: its type, current, neighbor (None when it has none), the
\* copy of distances, and the distance its description shows (current_dist of
\* a visit or found entry, alt_distance of a relax entry); the texts are left out
Step(type, current, neighbor, distances, dist) ==
    [type |-> type, current |-> current, neighbor |-> neighbor,
     distances |-> distances, dist |-> dist]

\* `if track_steps: steps.append(entry)`
Record(f, entry) ==
    IF f.track_steps THEN [f EXCEPT !.steps = Append(f.steps, entry)] ELSE f

\* lines 264-284: the locals before the loop
InitQuery(start, end, time_of_day, emergency_mode, track_steps) ==
    LET distances == [n \in Nodes |-> IF n = start THEN 0 ELSE Inf]
    IN  [pc |-> "pop",
         start |-> start, end |-> end,
         time_of_day |-> time_of_day, emergency_mode |-> emergency_mode,
         track_steps |-> track_steps,
         distances |-> distances,
         previous |-> [n \in Nodes |-> None],
         pq |-> {<<0, start>>},
         visited |-> {},
         steps |-> IF track_steps
                   THEN <<Step("init", None, None, distances, None)>>
                   ELSE <<>>,
         current |-> None,
         nbr |-> 0,
         path |-> <<>>,
         distance |-> Inf]

\* the order of the heap's (distance, node) tuples
TupleLess(e, f) == e[1] < f[1] \/ (e[1] = f[1] /\ StrLess(e[2], f[2]))

\* faulty variant: among equal distances the greatest node name comes first
HeapMinLastName(pq) ==
    CHOOSE e \in pq :
        \A f \in pq \ {e} : e[1] < f[1] \/ (e[1] = f[1] /\ StrLess(f[2], e[2]))

\* faulty variant: the heap is ordered by node name alone
HeapMinByName(pq) == CHOOSE e \in pq : \A f \in pq \ {e} : ~StrLess(f[2], e[2])

\* heapq.heappop: the smallest tuple of the heap
HeapMin(pq) == CHOOSE e \in pq : \A f \in pq \ {e} : TupleLess(e, f)

\* lines 343-348: walk previous back from node
RECURSIVE ReconstructPath(_, _)
ReconstructPath(previous, current) ==
    IF current = None THEN <<>>
    ELSE Append(ReconstructPath(previous, previous[current]), current)

\* faulty variant: the trivial query gets no path
FinishTrivialEmpty(f) ==
    [f EXCEPT !.pc = "done",
              !.path = IF f.start = f.end THEN <<>>
                       ELSE ReconstructPath(f.previous, f.end),
              !.distance = f.distances[f.end]]

\* faulty variant: no path at all when end was not reached
FinishNoPath(f) ==
    [f EXCEPT !.pc = "done",
              !.path = IF f.distances[f.end] = Inf THEN <<>>
                       ELSE ReconstructPath(f.previous, f.end),
              !.distance = f.distances[f.end]]

\* lines 343-355: the loop is over; build the PathResult
Finish(f) ==
    [f EXCEPT !.pc = "done",
              !.path = ReconstructPath(f.previous, f.end),
              !.distance = f.distances[f.end]]

\* faulty variant: no test of visited, a stale entry is acted on again
PopStepRevisit(f) ==
    IF f.pq = {} THEN Finish(f)
    ELSE LET e == HeapMin(f.pq)
             current_dist == e[1]
             current == e[2]
             rest == f.pq \ {e}
             g == Record([f EXCEPT !.pq = rest, !.current = current,
                                   !.visited = f.visited \cup {current}],
                         Step("visit", current, None, f.distances, current_dist))
         IN  IF current = f.end
             THEN Finish(Record(g, Step("found", current, None,
                                        f.distances, current_dist)))
             ELSE IF Len(graph.nodes[current]) = 0 THEN g
             ELSE [g EXCEPT !.pc = "relax", !.nbr = 1]

\* faulty variant: no break at end, the loop runs until the heap is empty
PopStepNoBreak(f) ==
    IF f.pq = {} THEN Finish(f)
    ELSE LET e == HeapMin(f.pq)
             current_dist == e[1]
             current == e[2]
             rest == f.pq \ {e}
         IN  IF current \in f.visited
             THEN [f EXCEPT !.pq = rest, !.current = current]
             ELSE LET g == Record([f EXCEPT !.pq = rest, !.current = current,
                                            !.visited = f.visited \cup {current}],
                                  Step("visit", current, None, f.distances,
                                       current_dist))
                  IN  IF Len(graph.nodes[current]) = 0 THEN g
                      ELSE [g EXCEPT !.pc = "relax", !.nbr = 1]

\* faulty variant: an entry of a finalized location is looked at but left in
\* the heap
PopStepKeepStale(f) ==
    IF f.pq = {} THEN Finish(f)
    ELSE LET e == HeapMin(f.pq)
             current_dist == e[1]
             current == e[2]
             rest == f.pq \ {e}
         IN  IF current \in f.visited
             THEN [f EXCEPT !.current = current]
             ELSE LET g == Record([f EXCEPT !.pq = rest, !.current = current,
                                            !.visited = f.visited \cup {current}],
                                  Step("visit", current, None, f.distances,
                                       current_dist))
                  IN  IF current = f.end
                      THEN Finish(Record(g, Step("found", current, None,
                                                 f.distances, current_dist)))
                      ELSE IF Len(graph.nodes[current]) = 0 THEN g
                      ELSE [g EXCEPT !.pc = "relax", !.nbr = 1]

\* lines 286-318: one turn of `while pq`, up to the neighbour loop
PopStep(f) ==
    IF f.pq = {} THEN Finish(f)
    ELSE LET e == HeapMin(f.pq)
             current_dist == e[1]
             current == e[2]
             rest == f.pq \ {e}
         IN  IF current \in f.visited
             THEN [f EXCEPT !.pq = rest, !.current = current]
             ELSE LET g == Record([f EXCEPT !.pq = rest, !.current = current,
                                            !.visited = f.visited \cup {current}],
                                  Step("visit", current, None, f.distances,
                                       current_dist))
                  IN  IF current = f.end
                      THEN Finish(Record(g, Step("found", current, None,
                                                 f.distances, current_dist)))
                      ELSE IF Len(graph.nodes[current]) = 0 THEN g
                      ELSE [g EXCEPT !.pc = "relax", !.nbr = 1]

\* faulty variant: <= lets an alternative of equal distance take over
RelaxStepNonStrict(f, bp, hz) ==
    LET conns == graph.nodes[f.current]
        neighbor == conns[f.nbr].to
        edge_weight == get_effective_weight(bp, hz, f.current, neighbor,
                                            f.time_of_day, f.emergency_mode)
        alt_distance == f.distances[f.current] + edge_weight
        relaxed ==
            IF neighbor \notin f.visited /\ edge_weight # Inf
               /\ alt_distance <= f.distances[neighbor]
            THEN LET g == [f EXCEPT !.distances[neighbor] = alt_distance,
                                    !.previous[neighbor] = f.current,
                                    !.pq = f.pq \cup {<<alt_distance, neighbor>>}]
                 IN  Record(g, Step("relax", f.current, neighbor, g.distances,
                                    alt_distance))
            ELSE f
    IN  IF f.nbr < Len(conns)
        THEN [relaxed EXCEPT !.nbr = f.nbr + 1]
        ELSE [relaxed EXCEPT !.pc = "pop", !.nbr = 0]

\* faulty variant: the predecessor is recorded on first discovery only
RelaxStepKeepPrevious(f, bp, hz) ==
    LET conns == graph.nodes[f.current]
        neighbor == conns[f.nbr].to
        edge_weight == get_effective_weight(bp, hz, f.current, neighbor,
                                            f.time_of_day, f.emergency_mode)
        alt_distance == f.distances[f.current] + edge_weight
        relaxed ==
            IF neighbor \notin f.visited /\ edge_weight # Inf
               /\ alt_distance < f.distances[neighbor]
            THEN LET g == [f EXCEPT !.distances[neighbor] = alt_distance,
                                    !.previous[neighbor] =
                                        IF f.previous[neighbor] = None
                                        THEN f.current
                                        ELSE f.previous[neighbor],
                                    !.pq = f.pq \cup {<<alt_distance, neighbor>>}]
                 IN  Record(g, Step("relax", f.current, neighbor, g.distances,
                                    alt_distance))
            ELSE f
    IN  IF f.nbr < Len(conns)
        THEN [relaxed EXCEPT !.nbr = f.nbr + 1]
        ELSE [relaxed EXCEPT !.pc = "pop", !.nbr = 0]

\* faulty variant: a relax entry for every passable link to an unfinalized
\* neighbour, whether its distance improves or not
RelaxStepRecordEvery(f, bp, hz) ==
    LET conns == graph.nodes[f.current]
        neighbor == conns[f.nbr].to
        edge_weight == get_effective_weight(bp, hz, f.current, neighbor,
                                            f.time_of_day, f.emergency_mode)
        alt_distance == f.distances[f.current] + edge_weight
        relaxed ==
            IF neighbor \notin f.visited /\ edge_weight # Inf
            THEN LET g == IF alt_distance < f.distances[neighbor]
                          THEN [f EXCEPT !.distances[neighbor] = alt_distance,
                                         !.previous[neighbor] = f.current,
                                         !.pq = f.pq \cup
                                                {<<alt_distance, neighbor>>}]
                          ELSE f
                 IN  Record(g, Step("relax", f.current, neighbor, g.distances,
                                    alt_distance))
            ELSE f
    IN  IF f.nbr < Len(conns)
        THEN [relaxed EXCEPT !.nbr = f.nbr + 1]
        ELSE [relaxed EXCEPT !.pc = "pop", !.nbr = 0]

\* lines 319-331: one turn of `for neighbor in node.connections`
RelaxStep(f, bp, hz) ==
    LET conns == graph.nodes[f.current]
        neighbor == conns[f.nbr].to
        edge_weight == get_effective_weight(bp, hz, f.current, neighbor,
                                            f.time_of_day, f.emergency_mode)
        alt_distance == f.distances[f.current] + edge_weight
        relaxed ==
            IF neighbor \notin f.visited /\ edge_weight # Inf
               /\ alt_distance < f.distances[neighbor]
            THEN LET g == [f EXCEPT !.distances[neighbor] = alt_distance,
                                    !.previous[neighbor] = f.current,
                                    !.pq = f.pq \cup {<<alt_distance, neighbor>>}]
                 IN  Record(g, Step("relax", f.current, neighbor, g.distances,
                                    alt_distance))
            ELSE f
    IN  IF f.nbr < Len(conns)
        THEN [relaxed EXCEPT !.nbr = f.nbr + 1]
        ELSE [relaxed EXCEPT !.pc = "pop", !.nbr = 0]

\* one step of the search against the store bp, hz
DijkstraStep(f, bp, hz) ==
    IF f.pc = "pop" THEN PopStep(f) ELSE RelaxStep(f, bp, hz)

\* PathFinder.dijkstra run to completion against one store state
RECURSIVE RunDijkstra(_, _, _)
RunDijkstra(f, bp, hz) ==
    IF f.pc = "done" THEN f ELSE RunDijkstra(DijkstraStep(f, bp, hz), bp, hz)

dijkstra(bp, hz, start, end, time_of_day, emergency_mode, track_steps) ==
    RunDijkstra(InitQuery(start, end, time_of_day, emergency_mode, track_steps),
                bp, hz)

----------------------------------------------------------------------------
(* The nearest-exit query: the call frame of PathFinder.find_nearest_exit *)

NeIdle == [pc |-> "idle"]

\* lines 372-373: the locals before the loop
InitNearestExit(start, time_of_day) ==
    [pc |-> IF Len(graph.exit_points) = 0 THEN "done" ELSE "loop",
     start |-> start, time_of_day |-> time_of_day,
     i |-> 1,
     min_distance |-> Inf,
     nearest_exit |-> None]

\* graph.exit_points[i], the target of the loop's current dijkstra call
ExitPoint(n) == graph.exit_points[n.i]

\* faulty variant: the first exit that can be reached is kept
NearestExitStepFirstFound(n, result_distance) ==
    LET m == IF n.nearest_exit = None /\ result_distance < Inf
             THEN [n EXCEPT !.min_distance = result_distance,
                            !.nearest_exit = ExitPoint(n)]
             ELSE n
    IN  IF n.i < Len(graph.exit_points)
        THEN [m EXCEPT !.i = n.i + 1]
        ELSE [m EXCEPT !.pc = "done"]

\* faulty variant: <= lets a later exit at the same distance replace the earlier one
NearestExitStepLastWins(n, result_distance) ==
    LET m == IF result_distance <= n.min_distance
             THEN [n EXCEPT !.min_distance = result_distance,
                            !.nearest_exit = ExitPoint(n)]
             ELSE n
    IN  IF n.i < Len(graph.exit_points)
        THEN [m EXCEPT !.i = n.i + 1]
        ELSE [m EXCEPT !.pc = "done"]

\* lines 384-386 and the loop's advance, given the distance of the call for exit i
NearestExitStep(n, result_distance) ==
    LET m == IF result_distance < n.min_distance
             THEN [n EXCEPT !.min_distance = result_distance,
                            !.nearest_exit = ExitPoint(n)]
             ELSE n
    IN  IF n.i < Len(graph.exit_points)
        THEN [m EXCEPT !.i = n.i + 1]
        ELSE [m EXCEPT !.pc = "done"]

\* PathFinder.find_nearest_exit run to completion against one store state
RECURSIVE RunNearestExit(_, _, _)
RunNearestExit(n, bp, hz) ==
    IF n.pc = "done" THEN n
    ELSE RunNearestExit(
             NearestExitStep(n, dijkstra(bp, hz, n.start, ExitPoint(n),
                                         n.time_of_day, TRUE, FALSE).distance),
             bp, hz)

find_nearest_exit(bp, hz, start, time_of_day) ==
    RunNearestExit(InitNearestExit(start, time_of_day), bp, hz)

----------------------------------------------------------------------------
(* Inputs of the requests *)

\* a name that is no node of the graph
UnknownNode == "Nowhere"

\* the time_of_day strings a request carries: the three tags, a tag in another
\* case and an unknown one
TimeStrInputs == TimeOfDay \cup {"Morning", "night"}

\* str.upper() on those strings
upper ==
    "morning" :> "MORNING" @@ "afternoon" :> "AFTERNOON" @@
    "evening" :> "EVENING" @@ "Morning" :> "MORNING" @@ "night" :> "NIGHT"

\* the members of the TimeOfDay enum: name -> value
TimeOfDayMembers ==
    "MORNING" :> "morning" @@ "AFTERNOON" :> "afternoon" @@ "EVENING" :> "evening"

\* TimeOfDay[time_str.upper()], None standing for the KeyError
ParseTimeOfDay(time_str) ==
    IF upper[time_str] \in DOMAIN TimeOfDayMembers
    THEN TimeOfDayMembers[upper[time_str]]
    ELSE None

\* the (node1, node2) arguments of block and unblock requests: a link in both
\* argument orders, a link given in sorted order, a link given in reverse order
BlockInputs ==
    {<<"Library", "Computer Lab">>, <<"Computer Lab", "Library">>,
     <<"Admin Block", "Main Gate">>, <<"Hostel", "Auditorium">>}

\* the node argument of hazard requests: exit points, other nodes, an unknown name
HazardInputs ==
    {"Main Gate", "Sports Complex", "Library", "Computer Lab", UnknownNode}

----------------------------------------------------------------------------
(* The Flask handlers, each run as one atomic request *)

NoResponse == [op |-> "none", status |-> 0, args |-> <<>>, body |-> <<>>]

\* args holds the arguments of an answered (200) call as the handler passed them
\* on; an error carries its message
Reply(op, status, args, body) ==
    [op |-> op, status |-> status, args |-> args, body |-> body]

\* no request is being served and the last response has been taken
Quiet ==
    /\ response = NoResponse
    /\ q = Idle
    /\ ne = NeIdle
    /\ reset = ResetIdle

\* faulty variant: an emergency query marks its start as a hazard zone
FindPathMarking(start, end, time_str, emergency_mode, track_steps) ==
    /\ Quiet
    /\ IF start \notin Nodes \/ end \notin Nodes
       THEN /\ response' = Reply("find_path", 400, <<>>,
                                 "Invalid node names")
            /\ q' = q
            /\ hazard_zones' = hazard_zones
       ELSE IF ParseTimeOfDay(time_str) = None
       THEN /\ response' = Reply("find_path", 400, <<>>,
                                 "Invalid time_of_day")
            /\ q' = q
            /\ hazard_zones' = hazard_zones
       ELSE /\ q' = dijkstra(blocked_paths, hazard_zones, start, end,
                             ParseTimeOfDay(time_str), emergency_mode, track_steps)
            /\ response' = Reply("find_path", 200,
                                 <<start, end, ParseTimeOfDay(time_str),
                                   emergency_mode, track_steps>>,
                                 <<q'.path, q'.distance, q'.steps, q'.visited>>)
            /\ hazard_zones' = IF emergency_mode
                               THEN hazard_zones \cup {start}
                               ELSE hazard_zones
    /\ UNCHANGED <<graph, blocked_paths, ne, reset, seen>>

\* POST /api/path
FindPath(start, end, time_str, emergency_mode, track_steps) ==
    /\ Quiet
    /\ IF start \notin Nodes \/ end \notin Nodes
       THEN /\ response' = Reply("find_path", 400, <<>>,
                                 "Invalid node names")
            /\ q' = q
       ELSE IF ParseTimeOfDay(time_str) = None
       THEN /\ response' = Reply("find_path", 400, <<>>,
                                 "Invalid time_of_day")
            /\ q' = q
       ELSE /\ q' = dijkstra(blocked_paths, hazard_zones, start, end,
                             ParseTimeOfDay(time_str), emergency_mode, track_steps)
            /\ response' = Reply("find_path", 200,
                                 <<start, end, ParseTimeOfDay(time_str),
                                   emergency_mode, track_steps>>,
                                 <<q'.path, q'.distance, q'.steps, q'.visited>>)
    /\ UNCHANGED <<graph, blocked_paths, hazard_zones, ne, reset, seen>>

\* POST /api/emergency/nearest-exit
FindNearestExit(start, time_str) ==
    /\ Quiet
    /\ IF start \notin Nodes
       THEN /\ response' = Reply("find_nearest_exit", 400, <<>>,
                                 "Invalid node name")
            /\ ne' = ne
       ELSE IF ParseTimeOfDay(time_str) = None
       THEN /\ response' = Reply("find_nearest_exit", 400, <<>>,
                                 "Invalid time_of_day")
            /\ ne' = ne
       ELSE /\ ne' = find_nearest_exit(blocked_paths, hazard_zones, start,
                                       ParseTimeOfDay(time_str))
            /\ response' = Reply("find_nearest_exit", 200,
                                 <<start, ParseTimeOfDay(time_str)>>,
                                 <<ne'.nearest_exit, ne'.min_distance>>)
    /\ UNCHANGED <<graph, blocked_paths, hazard_zones, q, reset, seen>>

\* POST /api/paths/block
BlockPath(node1, node2) ==
    /\ Quiet
    /\ Cardinality(block_path(blocked_paths, node1, node2)) <= MaxBlocked
    /\ blocked_paths' = block_path(blocked_paths, node1, node2)
    /\ response' = Reply("block_path", 200, <<node1, node2>>, blocked_paths')
    /\ UNCHANGED <<graph, hazard_zones, q, ne, reset, seen>>

\* POST /api/paths/unblock
UnblockPath(node1, node2) ==
    /\ Quiet
    /\ blocked_paths' = unblock_path(blocked_paths, node1, node2)
    /\ response' = Reply("unblock_path", 200, <<node1, node2>>, blocked_paths')
    /\ UNCHANGED <<graph, hazard_zones, q, ne, reset, seen>>

\* GET /api/paths/blocked
GetBlockedPaths ==
    /\ Quiet
    /\ response' = Reply("get_blocked_paths", 200, <<>>, blocked_paths)
    /\ UNCHANGED <<graph, blocked_paths, hazard_zones, q, ne, reset, seen>>

\* POST /api/hazards/add
AddHazard(node) ==
    /\ Quiet
    /\ IF node \notin Nodes
       THEN /\ response' = Reply("add_hazard", 400, <<>>, "Invalid node name")
            /\ hazard_zones' = hazard_zones
       ELSE /\ Cardinality(add_hazard_zone(hazard_zones, node)) <= MaxHazards
            /\ hazard_zones' = add_hazard_zone(hazard_zones, node)
            /\ response' = Reply("add_hazard", 200, <<node>>, hazard_zones')
    /\ UNCHANGED <<graph, blocked_paths, q, ne, reset, seen>>

\* POST /api/hazards/remove
RemoveHazard(node) ==
    /\ Quiet
    /\ hazard_zones' = remove_hazard_zone(hazard_zones, node)
    /\ response' = Reply("remove_hazard", 200, <<node>>, hazard_zones')
    /\ UNCHANGED <<graph, blocked_paths, q, ne, reset, seen>>

\* POST /api/hazards/clear
ClearHazards ==
    /\ Quiet
    /\ hazard_zones' = clear_hazards(hazard_zones)
    /\ response' = Reply("clear_hazards", 200, <<>>, {})
    /\ UNCHANGED <<graph, blocked_paths, q, ne, reset, seen>>

\* GET /api/hazards
GetHazards ==
    /\ Quiet
    /\ response' = Reply("get_hazards", 200, <<>>, hazard_zones)
    /\ UNCHANGED <<graph, blocked_paths, hazard_zones, q, ne, reset, seen>>

\* POST /api/reset
ResetState ==
    /\ Quiet
    /\ blocked_paths' = {}
    /\ hazard_zones' = clear_hazards(hazard_zones)
    /\ response' = Reply("reset_state", 200, <<>>, <<{}, {}>>)
    /\ UNCHANGED <<graph, q, ne, reset, seen>>

\* the client takes the response; the handler's frames are gone
Deliver ==
    /\ response # NoResponse
    /\ reset = ResetIdle
    /\ response' = NoResponse
    /\ q' = Idle
    /\ ne' = NeIdle
    /\ UNCHANGED <<graph, blocked_paths, hazard_zones, reset, seen>>

----------------------------------------------------------------------------
(* The specification of requests served one at a time *)

Init ==
    /\ graph = CampusGraph
    /\ blocked_paths = {}
    /\ hazard_zones = {}
    /\ q = Idle
    /\ ne = NeIdle
    /\ reset = ResetIdle
    /\ response = NoResponse
    /\ seen = {}

Next ==
    \/ \E start \in Nodes \cup {UnknownNode}, end \in Nodes \cup {UnknownNode},
          time_str \in TimeStrInputs, emergency_mode \in BOOLEAN,
          track_steps \in BOOLEAN :
          FindPath(start, end, time_str, emergency_mode, track_steps)
    \/ \E start \in Nodes \cup {UnknownNode}, time_str \in TimeStrInputs :
          FindNearestExit(start, time_str)
    \/ \E p \in BlockInputs : BlockPath(p[1], p[2])
    \/ \E p \in BlockInputs : UnblockPath(p[1], p[2])
    \/ GetBlockedPaths
    \/ \E node \in HazardInputs : AddHazard(node)
    \/ \E node \in HazardInputs : RemoveHazard(node)
    \/ ClearHazards
    \/ GetHazards
    \/ ResetState
    \/ Deliver

Spec == Init /\ [][Next]_vars

----------------------------------------------------------------------------
(* The specification of the weight function over drawn links: PathFinder is   *)
(* built on the campus graph or on a graph of one link, in both directions,   *)
(* whose base distance and multipliers are drawn; _get_effective_weight is    *)
(* called on it between store mutations.                                      *)

\* the multipliers drawn, in tenths: 0.5 and 1.5, which binary floating point
\* holds exactly, so that the float product of the source is the exact product
Multipliers == {5, 15}

LinkGraph(distance, mo, af, ev) ==
    [nodes |-> ("Main Gate" :> <<Connection("Library", distance, mo, af, ev)>>
                @@ "Library" :> <<Connection("Main Gate", distance, mo, af, ev)>>),
     exit_points |-> <<"Main Gate">>]

\* a call of PathFinder._get_effective_weight and the value it returns
EffectiveWeight(from_node, to_node, time_of_day, emergency_mode) ==
    /\ Quiet
    /\ response' = Reply("get_effective_weight", 200,
                         <<from_node, to_node, time_of_day, emergency_mode>>,
                         get_effective_weight(blocked_paths, hazard_zones,
                                              from_node, to_node,
                                              time_of_day, emergency_mode))
    /\ UNCHANGED <<graph, blocked_paths, hazard_zones, q, ne, reset, seen>>

InitWeight ==
    /\ graph \in {CampusGraph} \cup
                 {LinkGraph(d, mo, af, ev) :
                     d \in 0..MaxDistance, mo \in Multipliers,
                     af \in Multipliers, ev \in Multipliers}
    /\ blocked_paths = {}
    /\ hazard_zones = {}
    /\ q = Idle
    /\ ne = NeIdle
    /\ reset = ResetIdle
    /\ response = NoResponse
    /\ seen = {}

NextWeight ==
    \/ \E from_node \in Nodes, to_node \in Nodes,
          time_of_day \in TimeOfDay, emergency_mode \in BOOLEAN :
          EffectiveWeight(from_node, to_node, time_of_day, emergency_mode)
    \/ \E p \in BlockInputs : BlockPath(p[1], p[2])
    \/ \E p \in BlockInputs : UnblockPath(p[1], p[2])
    \/ \E node \in HazardInputs : AddHazard(node)
    \/ \E node \in HazardInputs : RemoveHazard(node)
    \/ ClearHazards
    \/ ResetState
    \/ Deliver

SpecWeight == InitWeight /\ [][NextWeight]_vars

----------------------------------------------------------------------------
(* The specification of concurrent requests: the server runs each request in  *)
(* its own thread on the one PathFinder, with no lock.  A query advances one  *)
(* loop turn at a time; the store's set operations, each atomic, run between  *)
(* its turns; reset_state is two such operations.                             *)

\* the queries and store mutations issued while requests overlap
ConcStarts == {"Library", "Lecture Hall"}
ConcEnds == {"Computer Lab"}
ConcBlockInputs == {<<"Library", "Computer Lab">>, <<"Admin Block", "Main Gate">>}
ConcHazardInputs == {"Library", "Main Gate"}

InFlight == q # Idle \/ ne # NeIdle

\* the store states the query in flight has lived through, bp, hz being the newest
Noted(bp, hz) == IF InFlight THEN seen \cup {<<bp, hz>>} ELSE seen

\* find_path: the handler's thread enters dijkstra
ConcFindPath(start, end, time_of_day, emergency_mode, track_steps) ==
    /\ ~InFlight
    /\ response = NoResponse
    /\ q' = InitQuery(start, end, time_of_day, emergency_mode, track_steps)
    /\ seen' = {<<blocked_paths, hazard_zones>>}
    /\ UNCHANGED <<graph, blocked_paths, hazard_zones, ne, reset, response>>

\* one turn of dijkstra's loops, reading the store as it is now
ConcStep ==
    /\ q # Idle
    /\ q.pc \in {"pop", "relax"}
    /\ q' = DijkstraStep(q, blocked_paths, hazard_zones)
    /\ UNCHANGED <<graph, blocked_paths, hazard_zones, ne, reset, response, seen>>

\* find_nearest_exit: the handler's thread enters the loop over exit_points
ConcFindNearestExit(start, time_of_day) ==
    /\ ~InFlight
    /\ response = NoResponse
    /\ ne' = InitNearestExit(start, time_of_day)
    /\ q' = IF ne'.pc = "loop"
            THEN InitQuery(start, ExitPoint(ne'), time_of_day, TRUE, FALSE)
            ELSE q
    /\ seen' = {<<blocked_paths, hazard_zones>>}
    /\ UNCHANGED <<graph, blocked_paths, hazard_zones, reset, response>>

\* the dijkstra call for one exit has returned: lines 384-386, then the next exit
ConcNearestExitNext ==
    /\ ne # NeIdle
    /\ ne.pc = "loop"
    /\ q # Idle
    /\ q.pc = "done"
    /\ ne' = NearestExitStep(ne, q.distance)
    /\ q' = IF ne'.pc = "loop"
            THEN InitQuery(ne.start, ExitPoint(ne'), ne.time_of_day, TRUE, FALSE)
            ELSE q
    /\ UNCHANGED <<graph, blocked_paths, hazard_zones, reset, response, seen>>

\* the query's handler returns its result
ConcReturn ==
    /\ \/ ne = NeIdle /\ q # Idle /\ q.pc = "done"
       \/ ne # NeIdle /\ ne.pc = "done"
    /\ q' = Idle
    /\ ne' = NeIdle
    /\ seen' = {}
    /\ UNCHANGED <<graph, blocked_paths, hazard_zones, reset, response>>

\* a store mutation that leaves the sets as bp, hz
Mutate(bp, hz) ==
    /\ Cardinality(Noted(bp, hz)) <= MaxSeen
    /\ blocked_paths' = bp
    /\ hazard_zones' = hz
    /\ seen' = Noted(bp, hz)
    /\ UNCHANGED <<graph, q, ne, response>>

ConcBlockPath(node1, node2) ==
    /\ Cardinality(block_path(blocked_paths, node1, node2)) <= MaxBlocked
    /\ Mutate(block_path(blocked_paths, node1, node2), hazard_zones)
    /\ UNCHANGED reset

ConcUnblockPath(node1, node2) ==
    /\ Mutate(unblock_path(blocked_paths, node1, node2), hazard_zones)
    /\ UNCHANGED reset

ConcAddHazard(node) ==
    /\ node \in Nodes
    /\ Cardinality(add_hazard_zone(hazard_zones, node)) <= MaxHazards
    /\ Mutate(blocked_paths, add_hazard_zone(hazard_zones, node))
    /\ UNCHANGED reset

ConcRemoveHazard(node) ==
    /\ Mutate(blocked_paths, remove_hazard_zone(hazard_zones, node))
    /\ UNCHANGED reset

ConcClearHazards ==
    /\ Mutate(blocked_paths, clear_hazards(hazard_zones))
    /\ UNCHANGED reset

\* reset_state, line 290: path_finder.blocked_paths.clear()
ConcResetClearBlocked ==
    /\ reset = ResetIdle
    /\ Mutate({}, hazard_zones)
    /\ reset' = [pc |-> "clear_hazards", from |-> <<blocked_paths, hazard_zones>>]

\* reset_state, line 291: path_finder.clear_hazards()
ConcResetClearHazards ==
    /\ reset.pc = "clear_hazards"
    /\ Mutate(blocked_paths, clear_hazards(hazard_zones))
    /\ reset' = ResetIdle

\* get_blocked_paths, in its own thread
ConcGetBlockedPaths ==
    /\ ~InFlight
    /\ response = NoResponse
    /\ response' = Reply("get_blocked_paths", 200, <<>>, blocked_paths)
    /\ UNCHANGED <<graph, blocked_paths, hazard_zones, q, ne, reset, seen>>

\* get_hazards, in its own thread
ConcGetHazards ==
    /\ ~InFlight
    /\ response = NoResponse
    /\ response' = Reply("get_hazards", 200, <<>>, hazard_zones)
    /\ UNCHANGED <<graph, blocked_paths, hazard_zones, q, ne, reset, seen>>

\* the client takes a reader's response
ConcDeliver ==
    /\ response # NoResponse
    /\ response' = NoResponse
    /\ UNCHANGED <<graph, blocked_paths, hazard_zones, q, ne, reset, seen>>

NextConc ==
    \/ \E start \in ConcStarts, end \in ConcEnds, emergency_mode \in BOOLEAN :
          ConcFindPath(start, end, "morning", emergency_mode, FALSE)
    \/ ConcStep
    \/ \E start \in ConcStarts : ConcFindNearestExit(start, "morning")
    \/ ConcNearestExitNext
    \/ ConcReturn
    \/ \E p \in ConcBlockInputs : ConcBlockPath(p[1], p[2])
    \/ \E p \in ConcBlockInputs : ConcUnblockPath(p[1], p[2])
    \/ \E node \in ConcHazardInputs : ConcAddHazard(node)
    \/ \E node \in ConcHazardInputs : ConcRemoveHazard(node)
    \/ ConcClearHazards
    \/ ConcResetClearBlocked
    \/ ConcResetClearHazards
    \/ ConcGetBlockedPaths
    \/ ConcGetHazards
    \/ ConcDeliver

SpecConc == Init /\ [][NextConc]_vars

----------------------------------------------------------------------------
(* The specification of the search turn by turn: requests are served one at   *)
(* a time, as in Spec, and a query is followed through the turns of           *)
(* dijkstra's loops; the store changes between queries only.  PathFinder is   *)
(* built on the campus graph or on a graph of four locations with two routes  *)
(* between opposite corners, the distance of one link being drawn, so that    *)
(* routes of equal length and links of distance 0 occur.                      *)

\* Main Gate - Library - Computer Lab and Main Gate - Admin Block - Computer
\* Lab, every link in both directions, of distance 1 but for Admin Block -
\* Computer Lab, and with multiplier 1.0
SquareGraph(distance) ==
    [nodes |->
        ("Main Gate" :> <<Connection("Library", 1, 10, 10, 10),
                          Connection("Admin Block", 1, 10, 10, 10)>> @@
         "Library" :> <<Connection("Main Gate", 1, 10, 10, 10),
                        Connection("Computer Lab", 1, 10, 10, 10)>> @@
         "Admin Block" :> <<Connection("Main Gate", 1, 10, 10, 10),
                            Connection("Computer Lab", distance, 10, 10, 10)>> @@
         "Computer Lab" :> <<Connection("Library", 1, 10, 10, 10),
                             Connection("Admin Block", distance, 10, 10, 10)>>),
     exit_points |-> <<"Main Gate">>]

InitSearch ==
    /\ graph \in {CampusGraph} \cup {SquareGraph(d) : d \in 0..MaxDistance}
    /\ blocked_paths = {}
    /\ hazard_zones = {}
    /\ q = Idle
    /\ ne = NeIdle
    /\ reset = ResetIdle
    /\ response = NoResponse
    /\ seen = {}

\* the store mutations issued between the queries
SearchBlockInputs == {<<"Library", "Computer Lab">>, <<"Admin Block", "Main Gate">>}
SearchHazardInputs == {"Library", "Main Gate"}

\* the (time_of_day, emergency_mode) of the queries followed: normal mode under
\* each tag, and emergency mode, which makes no use of the tag
SearchModes ==
    {<<"morning", FALSE>>, <<"afternoon", FALSE>>, <<"evening", FALSE>>,
     <<"morning", TRUE>>}

NextSearch ==
    \/ \E start \in Nodes, end \in Nodes, mode \in SearchModes,
          track_steps \in BOOLEAN :
          ConcFindPath(start, end, mode[1], mode[2], track_steps)
    \/ ConcStep
    \/ \E start \in Nodes : ConcFindNearestExit(start, "morning")
    \/ ConcNearestExitNext
    \/ ConcReturn
    \/ \E p \in SearchBlockInputs : BlockPath(p[1], p[2])
    \/ \E p \in SearchBlockInputs : UnblockPath(p[1], p[2])
    \/ \E node \in SearchHazardInputs : AddHazard(node)
    \/ \E node \in SearchHazardInputs : RemoveHazard(node)
    \/ Deliver

SpecSearch == InitSearch /\ [][NextSearch]_vars

\* the same queries and store mutations with no trace asked for (the appends to
\* steps are the only difference of a traced run, whose turns are the same)
NextTerm ==
    \/ \E start \in Nodes, end \in Nodes, mode \in SearchModes :
          ConcFindPath(start, end, mode[1], mode[2], FALSE)
    \/ ConcStep
    \/ \E start \in Nodes : ConcFindNearestExit(start, "morning")
    \/ ConcNearestExitNext
    \/ ConcReturn
    \/ \E p \in SearchBlockInputs : BlockPath(p[1], p[2])
    \/ \E p \in SearchBlockInputs : UnblockPath(p[1], p[2])
    \/ \E node \in SearchHazardInputs : AddHazard(node)
    \/ \E node \in SearchHazardInputs : RemoveHazard(node)
    \/ Deliver

\* a query runs synchronously in its handler's thread: as long as a turn of
\* dijkstra's loops or of the loop over exit_points is left, it is taken
SpecTerm ==
    /\ InitSearch
    /\ [][NextTerm]_vars
    /\ WF_vars(ConcStep)
    /\ WF_vars(ConcNearestExitNext)

----------------------------------------------------------------------------
(* Reference definitions the properties are stated with *)

Min(S) == CHOOSE x \in S : \A y \in S : x <= y

\* the links of the graph, as (from, to) pairs
Links ==
    UNION {{<<m, graph.nodes[m][i].to>> : i \in 1..Len(graph.nodes[m])} : m \in Nodes}

\* for every node, the least sum of effective weights over the routes from start
\* to it that use at most k links of finite weight (Inf when there is none)
RouteMin(start, bp, hz, time_of_day, emergency_mode) ==
    LET \* the links of finite weight, each with its weight
        W == {t \in {<<e[1], e[2],
                       get_effective_weight(bp, hz, e[1], e[2],
                                            time_of_day, emergency_mode)>> :
                     e \in Links} : t[3] < Inf}
        Extend(D) ==
            [n \in Nodes |->
                Min({D[n]} \cup
                    {D[t[1]] + t[3] : t \in {x \in W : x[2] = n /\ D[x[1]] < Inf}})]
        RECURSIVE Routes(_, _)
        Routes(D, k) ==
            LET E == Extend(D)
            IN  IF k = 0 \/ E = D THEN D ELSE Routes(E, k - 1)
    IN  Routes([n \in Nodes |-> IF n = start THEN 0 ELSE Inf], Cardinality(Nodes) - 1)

\* the nodes a route from start reaches without crossing a blocked pair
RECURSIVE ReachableFrom(_, _)
ReachableFrom(R, bp) ==
    LET more == {e[2] : e \in {x \in Links : x[1] \in R /\ PathKey(x[1], x[2]) \notin bp}}
    IN  IF more \subseteq R THEN R ELSE ReachableFrom(R \cup more, bp)

\* a find_path request has been answered with a PathResult
PathAnswered == q.pc = "done" /\ response.op = "find_path"

\* a nearest-exit request has been answered
ExitAnswered == ne.pc = "done" /\ response.op = "find_nearest_exit"

----------------------------------------------------------------------------
(* C1: the distance findPath returns is the least total effective weight over *)
(* all routes from start to end in the current store state and mode, and is   *)
(* the sentinel exactly when no route of finite weight exists, although the   *)
(* search stops as soon as end is finalized.                                  *)
C1_DistanceIsMinimum ==
    PathAnswered =>
        q.distance = RouteMin(q.start, blocked_paths, hazard_zones,
                              q.time_of_day, q.emergency_mode)[q.end]

\* the scenario of the spec: Main Gate to Computer Lab in the morning is 417 via
\* Library, found with part of the graph never finalized
C1_Witness ==
    /\ PathAnswered
    /\ q.start = "Main Gate" /\ q.end = "Computer Lab"
    /\ q.time_of_day = "morning" /\ ~q.emergency_mode
    /\ q.path = <<"Main Gate", "Library", "Computer Lab">>
    /\ q.distance = 417
    /\ q.visited # Nodes

----------------------------------------------------------------------------
(* C2: no exit point is ever in the hazard-zone set, whatever mutators have   *)
(* run; an add-hazard request naming an exit point leaves the blocked set and *)
(* the hazard set as they were and is answered without an error.              *)
C2_NoExitHazard ==
    /\ [](hazard_zones \cap ExitPoints = {})
    /\ [][\A node \in ExitPoints :
            AddHazard(node) =>
                /\ blocked_paths' = blocked_paths
                /\ hazard_zones' = hazard_zones
                /\ response'.status = 200]_vars

\* an add-hazard request for an exit point was answered while a hazard is marked
C2_Witness ==
    /\ response.op = "add_hazard"
    /\ response.status = 200
    /\ response.args[1] \in ExitPoints
    /\ hazard_zones # {}

----------------------------------------------------------------------------
----------------------------------------------------------------------------
(* C6: when every route from start to a different end crosses a blocked pair, *)
(* findPath still answers: the distance is the sentinel, the path holds end   *)
(* alone, and end is not in the visited set.                                  *)
C6_UnreachableIsData ==
    (/\ PathAnswered
     /\ q.start # q.end
     /\ q.end \notin ReachableFrom({q.start}, blocked_paths))
    => /\ response.status = 200
       /\ q.distance = Inf
       /\ q.path = <<q.end>>
       /\ q.end \notin q.visited

\* Hostel is entered only from Auditorium; with that pair blocked it is cut off
C6_Witness ==
    /\ PathAnswered
    /\ q.start = "Main Gate" /\ q.end = "Hostel"
    /\ <<"Auditorium", "Hostel">> \in blocked_paths
    /\ q.distance = Inf
    /\ q.path = <<"Hostel">>

----------------------------------------------------------------------------
(* C7: once a pair is blocked, in either argument order, the effective weight *)
(* between its two nodes is the sentinel in both directions and in every      *)
(* mode; the pair stays blocked until an unblock of that pair or a reset; and *)
(* no path returned with a finite distance has the two nodes side by side.    *)
Modes == TimeOfDay \X BOOLEAN

WeightIsInf(a, b) ==
    \A m \in Modes :
        /\ get_effective_weight(blocked_paths, hazard_zones, a, b, m[1], m[2]) = Inf
        /\ get_effective_weight(blocked_paths, hazard_zones, b, a, m[1], m[2]) = Inf

C7_BlockedIsImpassable ==
    /\ [](\A key \in blocked_paths : WeightIsInf(key[1], key[2]))
    /\ [](response.op = "block_path" =>
            WeightIsInf(response.args[1], response.args[2]))
    /\ [][\A key \in blocked_paths :
            key \notin blocked_paths' =>
                \/ response'.op = "reset_state"
                \/ /\ response'.op = "unblock_path"
                   /\ PathKey(response'.args[1], response'.args[2]) = key]_vars
    /\ []((PathAnswered /\ q.distance < Inf) =>
            \A i \in 1..(Len(q.path) - 1) :
                PathKey(q.path[i], q.path[i + 1]) \notin blocked_paths)

\* Library - Computer Lab is blocked and a route between the two was returned
C7_Witness ==
    /\ PathAnswered
    /\ <<"Computer Lab", "Library">> \in blocked_paths
    /\ q.start = "Library" /\ q.end = "Computer Lab"
    /\ q.distance < Inf
    /\ Len(q.path) > 2

----------------------------------------------------------------------------
(* C8: in emergency mode the effective weight of every unblocked link is its  *)
(* base distance plus 500 for each of its endpoints in the hazard set (500    *)
(* with one, 1000 with both), the same for all three time-of-day tags.        *)
C8_EmergencyWeight ==
    \A e \in Links :
        PathKey(e[1], e[2]) \notin blocked_paths =>
            \A t \in TimeOfDay :
                get_effective_weight(blocked_paths, hazard_zones, e[1], e[2], t, TRUE)
                = GetConnection(e[1], e[2]).distance
                  + 500 * Cardinality({e[1], e[2]} \cap hazard_zones)

\* both endpoints of Library -> Computer Lab are hazardous and the link was
\* traversed by an emergency route: 120 + 1000
C8_Witness ==
    /\ PathAnswered
    /\ q.emergency_mode
    /\ hazard_zones = {"Library", "Computer Lab"}
    /\ q.path = <<"Library", "Computer Lab">>
    /\ q.distance = 1120

----------------------------------------------------------------------------
(* C10: for the answered query and every pair (a, b): the findPath distance   *)
(* after blockPair(a, b) is at least the distance before it, and the distance *)
(* after a following unblockPair(a, b) is at most the distance before the     *)
(* block.                                                                     *)

\* the distance findPath returns for the answered query in the store bp; in the
\* current store that is the answer at hand
DistanceIn(bp) ==
    IF bp = blocked_paths THEN q.distance
    ELSE dijkstra(bp, hazard_zones, q.start, q.end,
                  q.time_of_day, q.emergency_mode, q.track_steps).distance

C10_BlockingMonotone ==
    PathAnswered =>
        \A p \in BlockInputs :
            LET after == block_path(blocked_paths, p[1], p[2])
                restored == unblock_path(after, p[1], p[2])
            IN  /\ DistanceIn(after) >= q.distance
                /\ DistanceIn(restored) <= q.distance

\* a query whose distance a block strictly raises: Library to Computer Lab is
\* 120 in emergency mode and 500 once the pair is blocked
C10_Witness ==
    /\ PathAnswered
    /\ q.start = "Library" /\ q.end = "Computer Lab" /\ q.emergency_mode
    /\ blocked_paths = {} /\ hazard_zones = {}
    /\ q.distance = 120
    /\ DistanceIn(block_path(blocked_paths, "Computer Lab", "Library")) = 500

----------------------------------------------------------------------------
(* C11, as claimed: from every store state and for every pair (a, b),         *)
(* blockPair(a, b) followed by unblockPair(a, b) leaves a store in which the  *)
(* answered query has the path and the distance it had before the block.      *)

\* the PathResult findPath returns for the answered query in the store bp; in
\* the current store that is the answer at hand
ResultIn(bp) ==
    IF bp = blocked_paths THEN q
    ELSE dijkstra(bp, hazard_zones, q.start, q.end,
                  q.time_of_day, q.emergency_mode, q.track_steps)

C11_RoundTrip ==
    PathAnswered =>
        \A p \in BlockInputs :
            LET restored == unblock_path(block_path(blocked_paths, p[1], p[2]),
                                         p[1], p[2])
            IN  /\ ResultIn(restored).path = q.path
                /\ ResultIn(restored).distance = q.distance

(* C11, amended: from every store state in which the pair {a, b} is not       *)
(* blocked, blockPair(a, b) followed by unblockPair(a, b) leaves the blocked  *)
(* set as it was, so that the answered query has the path and the distance it *)
(* had before the block.                                                      *)
C11_RoundTripUnblocked ==
    PathAnswered =>
        \A p \in BlockInputs :
            PathKey(p[1], p[2]) \notin blocked_paths =>
                LET restored == unblock_path(block_path(blocked_paths, p[1], p[2]),
                                             p[1], p[2])
                IN  /\ restored = blocked_paths
                    /\ ResultIn(restored).path = q.path
                    /\ ResultIn(restored).distance = q.distance

\* a query whose answer the block changes: Main Gate to Computer Lab goes via
\* Library, and around it while Library - Computer Lab is blocked
C11_Witness ==
    /\ PathAnswered
    /\ blocked_paths = {<<"Admin Block", "Main Gate">>}
    /\ q.start = "Main Gate" /\ q.end = "Computer Lab" /\ ~q.emergency_mode
    /\ q.path = <<"Main Gate", "Library", "Computer Lab">>
    /\ LET after == block_path(blocked_paths, "Library", "Computer Lab")
       IN  /\ ResultIn(after).distance > q.distance
           /\ ResultIn(unblock_path(after, "Library", "Computer Lab")).path = q.path

----------------------------------------------------------------------------
(* C12: every mutator of the constraint store is idempotent: right after a    *)
(* block, unblock, add-hazard, remove-hazard, clear-hazards or reset request  *)
(* has been served, applying the same mutator with the same arguments again   *)
(* leaves the blocked set and the hazard set as they are; and a reset leaves  *)
(* both sets empty whatever they held.                                        *)
C12_Idempotent ==
    /\ [][\A p \in BlockInputs :
            BlockPath(p[1], p[2]) =>
                /\ block_path(blocked_paths', p[1], p[2]) = blocked_paths'
                /\ hazard_zones' = hazard_zones]_vars
    /\ [][\A p \in BlockInputs :
            UnblockPath(p[1], p[2]) =>
                /\ unblock_path(blocked_paths', p[1], p[2]) = blocked_paths'
                /\ hazard_zones' = hazard_zones]_vars
    /\ [][\A node \in HazardInputs :
            AddHazard(node) =>
                /\ node \in Nodes =>
                       add_hazard_zone(hazard_zones', node) = hazard_zones'
                /\ node \notin Nodes => hazard_zones' = hazard_zones
                /\ blocked_paths' = blocked_paths]_vars
    /\ [][\A node \in HazardInputs :
            RemoveHazard(node) =>
                /\ remove_hazard_zone(hazard_zones', node) = hazard_zones'
                /\ blocked_paths' = blocked_paths]_vars
    /\ [][ClearHazards =>
            /\ hazard_zones' = {}
            /\ clear_hazards(hazard_zones') = hazard_zones'
            /\ blocked_paths' = blocked_paths]_vars
    /\ [][ResetState =>
            /\ blocked_paths' = {}
            /\ hazard_zones' = {}
            /\ clear_hazards(hazard_zones') = hazard_zones']_vars

\* a block of a pair that was given before in the other argument order has been
\* served, on a store that holds another pair and a hazard
C12_Witness ==
    /\ response.op = "block_path"
    /\ response.args = <<"Library", "Computer Lab">>
    /\ blocked_paths = {<<"Computer Lab", "Library">>, <<"Admin Block", "Main Gate">>}
    /\ hazard_zones # {}

----------------------------------------------------------------------------
(* C13, as claimed: findPath with start equal to end returns the empty path   *)
(* and the distance 0, in every mode and store state.                         *)
C13_TrivialEmpty ==
    (PathAnswered /\ q.start = q.end) =>
        /\ q.path = <<>>
        /\ q.distance = 0

(* C13, amended: findPath with start equal to end returns the path that holds *)
(* start alone and the distance 0, in every mode and store state; start is    *)
(* the only location finalized.                                               *)
C13_TrivialSingleton ==
    (PathAnswered /\ q.start = q.end) =>
        /\ q.path = <<q.start>>
        /\ q.distance = 0
        /\ q.visited = {q.start}

\* Library to Library in emergency mode, Library being a hazard zone and its
\* link to Computer Lab blocked
C13_Witness ==
    /\ PathAnswered
    /\ q.start = "Library" /\ q.end = "Library" /\ q.emergency_mode
    /\ "Library" \in hazard_zones
    /\ <<"Computer Lab", "Library">> \in blocked_paths
    /\ q.path = <<"Library">>

----------------------------------------------------------------------------
(* C14: when start is itself a declared exit point, nearestExit returns start *)
(* and the distance 0, whatever pairs are blocked and whatever hazard zones   *)
(* are marked, and whether start is declared first or later.                  *)
C14_ExitFromExit ==
    (ExitAnswered /\ ne.start \in ExitPoints) =>
        /\ ne.nearest_exit = ne.start
        /\ ne.min_distance = 0

\* from the exit declared second, with the exit declared first within reach,
\* a pair blocked and a hazard marked
C14_Witness ==
    /\ ExitAnswered
    /\ Len(graph.exit_points) = 2
    /\ ne.start = graph.exit_points[2]
    /\ blocked_paths # {}
    /\ hazard_zones # {}
    /\ dijkstra(blocked_paths, hazard_zones, ne.start, graph.exit_points[1],
                ne.time_of_day, TRUE, FALSE).distance < Inf
    /\ response.body = <<ne.start, 0>>

----------------------------------------------------------------------------
(* C15: a findPath request with known start and end that asks for emergency   *)
(* mode is answered whatever its time-of-day string, and with the path and    *)
(* distance it gets under each of the three tags; without emergency mode a    *)
(* string that is no tag (in any case of letters) is refused and the search   *)
(* is not run.                                                                *)
C15_EmergencyAnyTime ==
    [][\A start \in Nodes, end \in Nodes, time_str \in TimeStrInputs,
         track_steps \in BOOLEAN :
          /\ (/\ response'.op = "find_path"
              /\ IF response'.status = 200
                 THEN response'.args = <<start, end, ParseTimeOfDay(time_str),
                                         TRUE, track_steps>>
                 ELSE ParseTimeOfDay(time_str) = None
              /\ FindPath(start, end, time_str, TRUE, track_steps)) =>
                /\ response'.status = 200
                /\ \A t \in TimeOfDay :
                      LET r == dijkstra(blocked_paths, hazard_zones, start, end,
                                        t, TRUE, track_steps)
                      IN  response'.body[1] = r.path /\ response'.body[2] = r.distance
          /\ (/\ ParseTimeOfDay(time_str) = None
              /\ FindPath(start, end, time_str, FALSE, track_steps)) =>
                /\ response'.status = 400
                /\ q' = Idle]_vars

----------------------------------------------------------------------------
(* C16: a path returned with a finite distance starts with start, ends with   *)
(* end, holds no location twice, joins every two consecutive locations by a   *)
(* link of the graph that is not blocked, and the effective weights of its    *)
(* links, in the mode of the query and the store as it is, add up to the      *)
(* returned distance.                                                         *)

\* the sum of the effective weights along path, from its i-th element on
RECURSIVE PathWeight(_, _, _, _)
PathWeight(path, i, time_of_day, emergency_mode) ==
    IF i >= Len(path) THEN 0
    ELSE get_effective_weight(blocked_paths, hazard_zones, path[i], path[i + 1],
                              time_of_day, emergency_mode)
         + PathWeight(path, i + 1, time_of_day, emergency_mode)

C16_PathWellFormed ==
    (PathAnswered /\ q.distance < Inf) =>
        /\ Len(q.path) >= 1
        /\ q.path[1] = q.start
        /\ q.path[Len(q.path)] = q.end
        /\ \A i, j \in 1..Len(q.path) : q.path[i] = q.path[j] => i = j
        /\ \A i \in 1..(Len(q.path) - 1) :
              /\ <<q.path[i], q.path[i + 1]>> \in Links
              /\ PathKey(q.path[i], q.path[i + 1]) \notin blocked_paths
        /\ PathWeight(q.path, 1, q.time_of_day, q.emergency_mode) = q.distance

\* a route of four links found in emergency mode, around a blocked pair and
\* through a hazard zone
C16_Witness ==
    /\ PathAnswered
    /\ q.emergency_mode
    /\ q.distance < Inf
    /\ Len(q.path) >= 5
    /\ blocked_paths # {}
    /\ \E i \in 1..Len(q.path) : q.path[i] \in hazard_zones

----------------------------------------------------------------------------
(* C17: the search stops as soon as end is popped and finalized: a call in    *)
(* which end is finalized is over; every turn of its loops is taken with end  *)
(* not yet finalized, so end is the last location added to the visited set    *)
(* and nothing is relaxed afterwards; and no location has end as predecessor, *)
(* end's neighbours never being relaxed from end.                             *)
C17_EarlyStop ==
    /\ [](q # Idle => (q.end \in q.visited => q.pc = "done"))
    /\ [](q # Idle => \A n \in Nodes : q.previous[n] # q.end)
    /\ [][ConcStep => q.end \notin q.visited]_vars
    /\ [][(q # Idle /\ q.end \in q.visited) =>
            (q' = q \/ q' = Idle \/ q'.visited = {})]_vars

\* the call is over with end finalized while the frontier still holds entries
\* and a neighbour of end is left that a relaxation from end would improve
C17_Witness ==
    /\ q # Idle
    /\ q.pc = "done"
    /\ q.end \in q.visited
    /\ q.pq # {}
    /\ \E n \in Nodes \ q.visited :
          /\ <<q.end, n>> \in Links
          /\ q.distances[q.end]
               + get_effective_weight(blocked_paths, hazard_zones, q.end, n,
                                      q.time_of_day, q.emergency_mode)
             < q.distances[n]

----------------------------------------------------------------------------
(* C18, as claimed: when the entry popped from the frontier shares its        *)
(* distance with another entry of the frontier, the popped one is the one     *)
(* that was pushed first, however the two node names compare.                 *)

\* the entry a pop turn takes from the frontier of f, g being the frame after it
Popped(f, g) == CHOOSE e \in f.pq : e \notin g.pq

\* the position in the traced run's steps at which the frontier entry e was
\* pushed: the init entry for (0, start), else the relax entry that pushed it
PushIndex(f, e) ==
    IF e = <<0, f.start>> THEN 1
    ELSE CHOOSE i \in 1..Len(f.steps) :
             /\ f.steps[i].type = "relax"
             /\ f.steps[i].neighbor = e[2]
             /\ f.steps[i].dist = e[1]

C18_FirstPushedFirst ==
    [][(ConcStep /\ q.pc = "pop" /\ q.pq # {} /\ q.track_steps) =>
          \A f \in q.pq \ {Popped(q, q')} :
              f[1] = Popped(q, q')[1] =>
                  PushIndex(q, Popped(q, q')) < PushIndex(q, f)]_vars

(* C18, amended: the entry popped from the frontier has the least distance of *)
(* the frontier, and when it shares that distance with another entry, the     *)
(* popped one is the one whose node name is the smaller in string order,      *)
(* whichever of the two was pushed first.                                     *)
C18_SmallestNameFirst ==
    [][(ConcStep /\ q.pc = "pop" /\ q.pq # {}) =>
          \A f \in q.pq \ {Popped(q, q')} :
              \/ Popped(q, q')[1] < f[1]
              \/ /\ Popped(q, q')[1] = f[1]
                 /\ StrLess(Popped(q, q')[2], f[2])]_vars

\* a location has just been finalized while the frontier holds the entry of
\* another location, not yet finalized, at the same distance and pushed earlier
C18_Witness ==
    /\ q # Idle
    /\ q.track_steps
    /\ q.pc = "relax" /\ q.nbr = 1
    /\ \E f \in q.pq :
          /\ f[1] = q.distances[q.current]
          /\ f[2] \notin q.visited
          /\ f[1] = q.distances[f[2]]
          /\ StrLess(q.current, f[2])
          /\ PushIndex(q, f) < PushIndex(q, <<q.distances[q.current], q.current>>)

----------------------------------------------------------------------------
(* C19: relaxation is strict: when a turn of the neighbour loop reaches a     *)
(* location that has a predecessor at a tentative distance equal to the one   *)
(* recorded for it, its distance and predecessor stay and nothing is pushed;  *)
(* whenever the distance or the predecessor of a location changes, the        *)
(* location is the neighbour at hand and its new distance is strictly         *)
(* smaller than the old one; a pop turn changes neither.                      *)
C19_StrictRelax ==
    [][ConcStep =>
          IF q.pc = "relax"
          THEN LET neighbor == graph.nodes[q.current][q.nbr].to
                   alt == q.distances[q.current]
                          + get_effective_weight(blocked_paths, hazard_zones,
                                                 q.current, neighbor,
                                                 q.time_of_day, q.emergency_mode)
               IN  /\ (q.previous[neighbor] # None /\ alt = q.distances[neighbor]) =>
                        /\ q'.distances = q.distances
                        /\ q'.previous = q.previous
                        /\ q'.pq = q.pq
                        /\ q'.steps = q.steps
                   /\ \A n \in Nodes :
                        (\/ q'.distances[n] # q.distances[n]
                         \/ q'.previous[n] # q.previous[n]) =>
                            /\ n = neighbor
                            /\ q'.distances[n] = alt
                            /\ q'.distances[n] < q.distances[n]
                            /\ q'.previous[n] = q.current
          ELSE /\ q'.distances = q.distances
               /\ q'.previous = q.previous]_vars

\* the neighbour loop has just passed a neighbour, not finalized, that another
\* predecessor had reached at exactly the distance the current location
\* offers: the earlier predecessor is still recorded
C19_Witness ==
    /\ q # Idle
    /\ q.pc = "relax" /\ q.nbr >= 2
    /\ LET neighbor == graph.nodes[q.current][q.nbr - 1].to
       IN  /\ neighbor \notin q.visited
           /\ q.previous[neighbor] \notin {None, q.current}
           /\ q.distances[neighbor] < Inf
           /\ q.distances[q.current]
                + get_effective_weight(blocked_paths, hazard_zones, q.current,
                                       neighbor, q.time_of_day, q.emergency_mode)
              = q.distances[neighbor]

----------------------------------------------------------------------------
(* C20: within one run, locations are finalized in non-decreasing order of    *)
(* distance: a pop turn that finalizes a location finalizes it at the popped  *)
(* distance, which is its recorded distance and at least the distance of      *)
(* every location finalized before; a popped entry of a location that is      *)
(* finalized already is discarded, so a location is finalized at most once;   *)
(* no turn takes a location out of the visited set or changes the distance    *)
(* of a finalized location.                                                   *)
C20_FinalizedInOrder ==
    [][ConcStep =>
          /\ q.visited \subseteq q'.visited
          /\ \A m \in q.visited : q'.distances[m] = q.distances[m]
          /\ IF q.pc = "pop" /\ q.pq # {}
             THEN IF Popped(q, q')[2] \in q.visited
                  THEN /\ q'.visited = q.visited
                       /\ q'.pc = "pop"
                       /\ q'.steps = q.steps
                  ELSE /\ q'.visited = q.visited \cup {Popped(q, q')[2]}
                       /\ q'.distances[Popped(q, q')[2]] = Popped(q, q')[1]
                       /\ \A m \in q.visited :
                             q.distances[m] <= Popped(q, q')[1]
             ELSE q'.visited = q.visited]_vars

\* the location of the last visit entry of a traced run
LastVisited(f) ==
    LET i == CHOOSE k \in 1..Len(f.steps) :
                 /\ f.steps[k].type = "visit"
                 /\ \A j \in (k + 1)..Len(f.steps) : f.steps[j].type # "visit"
    IN  f.steps[i].current

\* an entry of a location finalized earlier has just been popped and discarded,
\* in a run that has finalized two locations at the same distance
C20_Witness ==
    /\ q # Idle
    /\ q.track_steps
    /\ q.pc = "pop"
    /\ q.current \in q.visited
    /\ LastVisited(q) # q.current
    /\ \E m, n \in q.visited : m # n /\ q.distances[m] = q.distances[n]

----------------------------------------------------------------------------
(* C21: the step trace of a traced run has exactly one init entry, the first; *)
(* exactly one visit entry for every finalized location and none for any      *)
(* other; a relax entry is appended by exactly the turns that improve a       *)
(* distance, one entry for the one improved location; and a found entry       *)
(* exists exactly when end has been reached, then once, as the last entry     *)
(* and right after the visit entry of end. An untraced run has an empty       *)
(* trace, and its path, distance and visited set are those of the traced run  *)
(* of the same query on the same store.                                       *)

\* the places of the entries of one type in the trace
EntriesOf(f, type) == {i \in 1..Len(f.steps) : f.steps[i].type = type}

C21_StepTrace ==
    /\ [](q # Idle /\ q.track_steps =>
            /\ Len(q.steps) >= 1
            /\ EntriesOf(q, "init") = {1}
            /\ \A i \in 1..Len(q.steps) :
                  q.steps[i].type \in {"init", "visit", "relax", "found"}
            /\ \A n \in Nodes :
                  Cardinality({i \in EntriesOf(q, "visit") :
                                  q.steps[i].current = n})
                    = IF n \in q.visited THEN 1 ELSE 0
            /\ IF q.end \in q.visited
               THEN /\ EntriesOf(q, "found") = {Len(q.steps)}
                    /\ q.steps[Len(q.steps)].current = q.end
                    /\ q.steps[Len(q.steps) - 1].type = "visit"
                    /\ q.steps[Len(q.steps) - 1].current = q.end
               ELSE EntriesOf(q, "found") = {})
    /\ [][ConcStep /\ q.track_steps =>
            IF q'.distances # q.distances
            THEN \E n \in Nodes :
                    /\ q'.distances[n] < q.distances[n]
                    /\ \A m \in Nodes \ {n} : q'.distances[m] = q.distances[m]
                    /\ q'.steps = Append(q.steps,
                                         Step("relax", q.current, n, q'.distances,
                                              q'.distances[n]))
            ELSE EntriesOf(q', "relax") = EntriesOf(q, "relax")]_vars
    /\ [](q # Idle /\ ~q.track_steps =>
            /\ q.steps = <<>>
            /\ q.pc = "done" =>
                  LET traced == dijkstra(blocked_paths, hazard_zones, q.start,
                                         q.end, q.time_of_day, q.emergency_mode,
                                         TRUE)
                  IN  /\ q.path = traced.path
                      /\ q.distance = traced.distance
                      /\ q.visited = traced.visited)

\* a traced run has reached end after improving the distance of one location
\* twice and examining, without an entry, a link that improved nothing
C21_Witness ==
    /\ q # Idle
    /\ q.track_steps
    /\ q.pc = "done"
    /\ q.end \in q.visited
    /\ \E i, j \in EntriesOf(q, "relax") :
          i < j /\ q.steps[i].neighbor = q.steps[j].neighbor
    /\ \E m \in q.visited \ {q.end} : \E n \in Nodes \ q.visited :
          /\ <<m, n>> \in Links
          /\ \A i \in EntriesOf(q, "relax") :
                ~(q.steps[i].current = m /\ q.steps[i].neighbor = n)

----------------------------------------------------------------------------
(* C22: every query terminates: a dijkstra call in flight comes to its end,   *)
(* and so does a find_nearest_exit call with all its dijkstra calls; a call   *)
(* is over only with the frontier exhausted or end finalized, also when end   *)
(* cannot be reached; the predecessor map never holds a cycle, so the walk    *)
(* back from end ends, and the path returned is that walk: it ends at end,    *)
(* starts at a location without predecessor and has no location twice.        *)

\* following previous from node, None is met within k steps
RECURSIVE EndsWithin(_, _, _)
EndsWithin(previous, node, k) ==
    IF node = None THEN TRUE
    ELSE IF k = 0 THEN FALSE
    ELSE EndsWithin(previous, previous[node], k - 1)

C22_Terminates ==
    /\ (q # Idle) ~> (q # Idle /\ q.pc = "done")
    /\ (ne # NeIdle) ~> (ne # NeIdle /\ ne.pc = "done")
    /\ [](q # Idle =>
            \A n \in Nodes : EndsWithin(q.previous, n, Cardinality(Nodes)))
    /\ [](q # Idle /\ q.pc = "done" =>
            /\ q.pq = {} \/ q.end \in q.visited
            /\ Len(q.path) \in 1..Cardinality(Nodes)
            /\ q.path[Len(q.path)] = q.end
            /\ q.previous[q.path[1]] = None
            /\ \A i \in 2..Len(q.path) : q.previous[q.path[i]] = q.path[i - 1]
            /\ \A i, j \in 1..Len(q.path) : i # j => q.path[i] # q.path[j])

\* within a nearest-exit query, the search for an exit that cannot be reached
\* has come to its end by exhausting the frontier, after more than one turn
C22_Witness ==
    /\ ne # NeIdle
    /\ q # Idle
    /\ q.pc = "done"
    /\ q.end \notin q.visited
    /\ q.pq = {}
    /\ q.distance = Inf
    /\ Cardinality(q.visited) >= 2

----------------------------------------------------------------------------
(* C23: queries are read-only and nothing is kept between them: no request,   *)
(* query or mutator, changes the graph's nodes, their connections or the exit *)
(* points; a find_path or find_nearest_exit request, answered or refused,     *)
(* leaves blocked_paths and hazard_zones as they were; and the answer to a    *)
(* query, whatever requests were served before it, is the answer the same     *)
(* query gets when asked again of the store as it stands.                     *)
C23_ReadOnly ==
    /\ [][/\ graph'.nodes = graph.nodes
          /\ graph'.exit_points = graph.exit_points]_vars
    /\ [][(response = NoResponse
             /\ response'.op \in {"find_path", "find_nearest_exit"}) =>
            /\ blocked_paths' = blocked_paths
            /\ hazard_zones' = hazard_zones]_vars
    /\ [](PathAnswered =>
            LET again == dijkstra(blocked_paths, hazard_zones, q.start, q.end,
                                  q.time_of_day, q.emergency_mode, q.track_steps)
            IN  response.body
                  = <<again.path, again.distance, again.steps, again.visited>>)
    /\ [](ExitAnswered =>
            LET again == find_nearest_exit(blocked_paths, hazard_zones,
                                           ne.start, ne.time_of_day)
            IN  response.body = <<again.nearest_exit, again.min_distance>>)

\* an emergency query has been answered from a store with a blocked pair and a
\* hazard zone, both of which its answer depends on, and its start is no
\* hazard zone
C23_Witness ==
    /\ PathAnswered
    /\ q.emergency_mode
    /\ blocked_paths # {}
    /\ hazard_zones # {}
    /\ q.start \notin hazard_zones
    /\ q.distance < Inf
    /\ q.distance # dijkstra({}, hazard_zones, q.start, q.end, q.time_of_day,
                             TRUE, FALSE).distance
    /\ q.distance # dijkstra(blocked_paths, {}, q.start, q.end, q.time_of_day,
                             TRUE, FALSE).distance

----------------------------------------------------------------------------
(* C9, as claimed: in normal mode the effective weight of every unblocked     *)
(* link is the product of its base distance and the time-of-day multiplier    *)
(* rounded half up, whatever the hazard set.                                  *)
C9_RoundHalfUp ==
    \A e \in Links :
        PathKey(e[1], e[2]) \notin blocked_paths =>
            \A t \in TimeOfDay :
                get_effective_weight(blocked_paths, hazard_zones, e[1], e[2], t, FALSE)
                = round_half_up(GetConnection(e[1], e[2]).distance
                                * GetConnection(e[1], e[2]).traffic[t], 10)

(* C9, amended: in normal mode the effective weight of every unblocked link   *)
(* is the integer nearest to the product of its base distance and the         *)
(* time-of-day multiplier, a product whose fractional part is exactly one     *)
(* half going to the even neighbour; the hazard set has no part in it.        *)
C9_RoundHalfEven ==
    \A e \in Links :
        PathKey(e[1], e[2]) \notin blocked_paths =>
            \A t \in TimeOfDay :
                LET w == get_effective_weight(blocked_paths, hazard_zones,
                                              e[1], e[2], t, FALSE)
                    tenths == GetConnection(e[1], e[2]).distance
                              * GetConnection(e[1], e[2]).traffic[t]
                IN  /\ 10 * w - tenths <= 5
                    /\ tenths - 10 * w <= 5
                    /\ (10 * w - tenths = 5 \/ tenths - 10 * w = 5) => w % 2 = 0
                    /\ w = get_effective_weight(blocked_paths, {}, e[1], e[2], t, FALSE)

\* a link of distance 5 and morning multiplier 0.5: the product 2.5 came back
\* as 2, with a hazard marked
C9_Witness ==
    /\ response.op = "get_effective_weight"
    /\ response.args = <<"Main Gate", "Library", "morning", FALSE>>
    /\ HasConnection("Main Gate", "Library")
    /\ GetConnection("Main Gate", "Library").distance = 5
    /\ GetConnection("Main Gate", "Library").traffic.morning = 5
    /\ hazard_zones = {"Library"}
    /\ response.body = 2

----------------------------------------------------------------------------
(* C3: a query that runs while the store is mutated returns what the same     *)
(* query returns when run alone on one of the store states that existed       *)
(* while it ran.                                                              *)
C3_SnapshotResult ==
    /\ (ne = NeIdle /\ q # Idle /\ q.pc = "done") =>
          \E s \in seen :
              LET alone == dijkstra(s[1], s[2], q.start, q.end,
                                    q.time_of_day, q.emergency_mode,
                                    q.track_steps)
              IN  alone.path = q.path /\ alone.distance = q.distance
    /\ (ne # NeIdle /\ ne.pc = "done") =>
          \E s \in seen :
              LET alone == find_nearest_exit(s[1], s[2], ne.start, ne.time_of_day)
              IN  /\ alone.nearest_exit = ne.nearest_exit
                  /\ alone.min_distance = ne.min_distance

----------------------------------------------------------------------------
(* C4: no reader (a list request, or a weight computation of a query) runs    *)
(* between the two clears of a reset that has emptied a non-empty blocked set *)
(* while the hazard set still holds its members from before the reset.        *)
TornReset ==
    /\ reset.pc = "clear_hazards"
    /\ reset.from[1] # {}
    /\ blocked_paths = {}
    /\ hazard_zones # {}
    /\ hazard_zones = reset.from[2]

C4_ResetAtomic ==
    [][TornReset =>
          ~(\/ ConcGetHazards
            \/ ConcGetBlockedPaths
            \/ (ConcStep /\ q.pc = "relax"))]_vars

====
